---------------------------- MODULE Spec2Model ----------------------------
(***************************************************************************)
(* Model of sphinxcontrib.bibtex.transforms:                               *)
(*   - node_text_transform      (Link Recovery, "\url " marker)             *)
(*   - BibliographyTransform.run (placeholder -> rendered bibliography)     *)
(*   - PybibtexNodeFormatter.run (Emphasis Recovery, "\textit " marker)     *)
(*                                                                         *)
(* Document nodes are records.  A docutils Text node is a str subclass, so  *)
(* two Text nodes compare equal exactly when their strings are equal; an    *)
(* Element compares by identity and never equals a Text.  Record equality   *)
(* of the Text records below is therefore the equality list.index() uses    *)
(* when Element.replace(old, new) looks up a Text `old`.                    *)
(***************************************************************************)
EXTENDS Integers, Sequences, FiniteSets

VARIABLES
    bibliographies,   \* domain.bibliographies, in placeholder traversal order
    citation_nodes,   \* bibliography.citation_nodes of each bibliography
    citations,        \* domain.citations
    citation_refs,    \* domain.citation_refs
    temp_data,        \* env.temp_data['bibtex_enum_count']: <<>> absent, <<n>> set
    document,         \* what stands at each placeholder's position
    pos,              \* the placeholder the loop of run() will process next
    error,            \* exception that left run(), "none" while there is none
    node,             \* subtree a Text Repair pass is applied to
    input,            \* that subtree before any pass
    passes,           \* the subtree after each completed application
    raised,           \* a Text Repair application raised ValueError
    repair            \* the Text Repair pass applied to node, "none" if none is

vars == <<bibliographies, citation_nodes, citations, citation_refs, temp_data,
          document, pos, error, node, input, passes, raised, repair>>

bibVars == <<bibliographies, citation_nodes, citations, citation_refs,
             temp_data, document, pos, error>>

repairVars == <<node, input, passes, raised, repair>>

---------------------------------------------------------------------------
(* Strings (Python str operations used by the passes)                       *)

UrlMarker == "\\url "

TextitMarker == "\\textit "

\* str.endswith(suffix)
EndsWith(s, suffix) ==
    /\ Len(s) >= Len(suffix)
    /\ SubSeq(s, Len(s) - Len(suffix) + 1, Len(s)) = suffix

\* s[:-n] for a string of at least n characters
DropLast(s, n) == SubSeq(s, 1, Len(s) - n)

\* str.replace(old, ""): every non-overlapping occurrence, left to right
RECURSIVE RemoveAll(_, _)
RemoveAll(s, old) ==
    IF Len(s) < Len(old) THEN s
    ELSE IF SubSeq(s, 1, Len(old)) = old
         THEN RemoveAll(SubSeq(s, Len(old) + 1, Len(s)), old)
         ELSE SubSeq(s, 1, 1) \o RemoveAll(SubSeq(s, 2, Len(s)), old)

---------------------------------------------------------------------------
(* docutils nodes                                                           *)

Text(s) == [tag |-> "#text", text |-> s]

Element(tag, children) == [tag |-> tag, children |-> children]

IsText(n) == n.tag = "#text"

\* docutils.nodes.reference(refuri=t.astext()) with t appended
Reference(t) == [tag |-> "reference", refuri |-> t.text, children |-> <<t>>]

\* docutils.nodes.emphasis("", ch)
Emphasis(ch) == [tag |-> "emphasis", children |-> <<ch>>]

\* Element.index(old): position of the first child equal to old, 0 for the
\* ValueError list.index raises when there is none
Index(children, old) ==
    IF \E i \in 1..Len(children) : children[i] = old
    THEN CHOOSE i \in 1..Len(children) :
            /\ children[i] = old
            /\ \A j \in 1..(i - 1) : children[j] # old
    ELSE 0

\* Node.astext()
RECURSIVE AsText(_)
RECURSIVE AsTextSeq(_)
AsTextSeq(children) ==
    IF children = <<>> THEN ""
    ELSE AsText(Head(children)) \o AsTextSeq(Tail(children))
AsText(n) == IF IsText(n) THEN n.text ELSE AsTextSeq(n.children)

---------------------------------------------------------------------------
(* Text Repair - Link Recovery: node_text_transform                         *)

\* node.replace(child, Text(child[:-5])): ok is FALSE when index() raised
StripUrlMarker(children, child) ==
    LET at == Index(children, child) IN
    IF at = 0 THEN [ok |-> FALSE, children |-> children]
    ELSE [ok |-> TRUE,
          children |-> [children EXCEPT ![at] = Text(DropLast(child.text, 5))]]

\* ref_node += next_child; node.replace(next_child, ref_node)
WrapInReference(children, next_child) ==
    LET at == Index(children, next_child) IN
    IF at = 0 THEN [ok |-> FALSE, children |-> children]
    ELSE [ok |-> TRUE,
          children |-> [children EXCEPT ![at] = Reference(next_child)]]

\* the condition of lines 31-33 on a pair of the zip_longest snapshot
\* (next_child is None past the last child: has_next is FALSE)
IsUrlPair(snapshot, i) ==
    /\ IsText(snapshot[i])
    /\ EndsWith(snapshot[i].text, UrlMarker)
    /\ i < Len(snapshot)
    /\ IsText(snapshot[i + 1])

\* node_text_transform(n) and its loop over the snapshot of n.children, from
\* pair i on.  The result is the node as left behind and whether ValueError
\* left the call (the replacements done before it stay done).
RECURSIVE node_text_transform(_)
RECURSIVE LinkLoop(_, _, _)
LinkLoop(children, snapshot, i) ==
    IF i > Len(snapshot) THEN [raised |-> FALSE, children |-> children]
    ELSE IF IsText(snapshot[i])
    THEN IF IsUrlPair(snapshot, i)
         THEN LET first == StripUrlMarker(children, snapshot[i]) IN
              IF ~first.ok THEN [raised |-> TRUE, children |-> children]
              ELSE LET second == WrapInReference(first.children, snapshot[i + 1]) IN
                   IF ~second.ok
                   THEN [raised |-> TRUE, children |-> first.children]
                   ELSE LinkLoop(second.children, snapshot, i + 1)
         ELSE LinkLoop(children, snapshot, i + 1)
    ELSE LET sub == node_text_transform(children[i])
             after == [children EXCEPT ![i] = sub.node]
         IN IF sub.raised THEN [raised |-> TRUE, children |-> after]
            ELSE LinkLoop(after, snapshot, i + 1)
node_text_transform(n) ==
    LET r == LinkLoop(n.children, n.children, 1) IN
    [raised |-> r.raised, node |-> [n EXCEPT !.children = r.children]]

---------------------------------------------------------------------------
(* Text Repair - Emphasis Recovery: PybibtexNodeFormatter.run               *)

\* the loop of lines 147-154 from child i on; next_wrap is TRUE for
\* docutils.nodes.emphasis and FALSE for None
RECURSIVE RebuildChildren(_, _, _, _)
RebuildChildren(children, i, next_wrap, newchilds) ==
    IF i > Len(children) THEN newchilds
    ELSE LET ch == children[i] IN
         IF IsText(ch) /\ EndsWith(ch.text, TextitMarker)
         THEN RebuildChildren(children, i + 1, TRUE,
                  Append(newchilds, Text(RemoveAll(ch.text, TextitMarker))))
         ELSE IF next_wrap
         THEN RebuildChildren(children, i + 1, FALSE,
                  Append(newchilds, Emphasis(ch)))
         ELSE RebuildChildren(children, i + 1, next_wrap, Append(newchilds, ch))

\* citation.findall(paragraph): every paragraph below n gets its children
\* rebuilt, in document order; the traversal goes on through the new children
RECURSIVE FormatParagraphs(_)
FormatParagraphs(n) ==
    IF IsText(n) THEN n
    ELSE LET kids == IF n.tag = "paragraph"
                     THEN RebuildChildren(n.children, 1, FALSE, <<>>)
                     ELSE n.children
         IN [n EXCEPT !.children =
                [i \in 1..Len(kids) |-> FormatParagraphs(kids[i])]]

\* document.findall(citation): the pass touches citation nodes only
RECURSIVE PybibtexNodeFormatter_run(_)
PybibtexNodeFormatter_run(n) ==
    IF IsText(n) THEN n
    ELSE IF n.tag = "citation" THEN FormatParagraphs(n)
    ELSE [n EXCEPT !.children =
             [i \in 1..Len(n.children) |-> PybibtexNodeFormatter_run(n.children[i])]]

---------------------------------------------------------------------------
(* BibliographyTransform.run                                                *)

\* BibliographyKey(docname=bibnode['docname'], id_=bibnode['ids'][0])
BibliographyKey(b) == <<b.docname, b.id_>>

\* variant of MatchingCitations: the citations sorted by key (Keys has the
\* two keys "x" < "y")
CitationsSortedByKey(bib_key) ==
    LET own == SelectSeq(citations,
                   LAMBDA citation : citation.bibliography_key = bib_key)
    IN SelectSeq(own, LAMBDA citation : citation.key = "x")
       \o SelectSeq(own, LAMBDA citation : citation.key # "x")

\* the citations of line 68-69, in the order of domain.citations
MatchingCitations(bib_key) ==
    SelectSeq(citations, LAMBDA citation : citation.bibliography_key = bib_key)

\* variant of CounterAtStart: an explicit start does not reset the counter
CounterKeptAtStart(b, temp) ==
    IF temp = <<>> THEN <<1>> ELSE temp

\* env.temp_data after lines 74-79: an explicit start overwrites the counter,
\* setdefault('bibtex_enum_count', 1) creates it when it is absent
CounterAtStart(b, temp) ==
    IF b.start >= 1 THEN <<b.start>>
    ELSE IF temp = <<>> THEN <<1>> ELSE temp

\* nodes['start'] of lines 75 and 78
EnumStart(b, temp) ==
    IF b.start >= 1 THEN b.start
    ELSE IF temp = <<>> THEN 1 ELSE temp[1]

\* env.temp_data['bibtex_enum_count'] += 1
CountEntry(temp) == <<temp[1] + 1>>

\* variant of Backrefs: markers of every document
BackrefsOfAnyDocument(bib_key, citation) ==
    LET cited == SelectSeq(citation_refs, LAMBDA citation_ref :
                     citation.key \in citation_ref.keys)
    IN [i \in 1..Len(cited) |-> cited[i].citation_ref_id]

\* the list comprehension of lines 91-95
Backrefs(bib_key, citation) ==
    LET cited == SelectSeq(citation_refs, LAMBDA citation_ref :
                     /\ bib_key[1] = citation_ref.docname
                     /\ citation.key \in citation_ref.keys)
    IN [i \in 1..Len(cited) |-> cited[i].citation_ref_id]

\* self.backend.paragraph(citation.formatted_entry)
Paragraph(formatted_entry) == Element("paragraph", formatted_entry.body)

\* docutils.nodes.label('', formatted_entry.label, support_smartquotes=False)
Label(formatted_entry) == Element("label", <<Text(formatted_entry.label)>>)

\* lines 86-103: the pre-built node with the entry appended to it
FilledCitationNode(b, citation_node, citation) ==
    LET backrefs == Backrefs(BibliographyKey(b), citation)
        filled ==
            IF b.list_ \in {"enumerated", "bullet"}
            THEN [citation_node EXCEPT
                    !.children = @ \o <<Paragraph(citation.formatted_entry)>>]
            ELSE [citation_node EXCEPT
                    !.backrefs = IF backrefs # <<>> THEN backrefs ELSE @,
                    !.children = @ \o <<Label(citation.formatted_entry),
                                        Paragraph(citation.formatted_entry)>>]
    IN [filled EXCEPT !.docname = b.docname]

\* lines 86-107 for a citation whose node exists.  acc is the state of the
\* loop: the exception that ended it, the nodes collected, the counter and
\* bibliography.citation_nodes (whose nodes are changed in place)
RenderPresent(b, acc, citation) ==
    LET filled == FilledCitationNode(b, acc.citation_nodes[citation.key], citation)
        repaired == node_text_transform(filled)
        kept == [acc.citation_nodes EXCEPT ![citation.key] = repaired.node]
    IN IF repaired.raised
       THEN [acc EXCEPT !.error = "ValueError", !.citation_nodes = kept]
       ELSE [error |-> "none",
             nodes |-> Append(acc.nodes, repaired.node),
             temp |-> IF b.list_ = "enumerated"
                      THEN CountEntry(acc.temp) ELSE acc.temp,
             citation_nodes |-> kept]

\* variant of RenderCitation: a citation without a node is skipped
RenderCitationSkipMissing(b, acc, citation) ==
    IF citation.key \notin DOMAIN acc.citation_nodes
    THEN acc
    ELSE RenderPresent(b, acc, citation)

\* one iteration of the loop of line 84; line 85 raises KeyError when
\* bibliography.citation_nodes holds no node for the key
RenderCitation(b, acc, citation) ==
    IF citation.key \notin DOMAIN acc.citation_nodes
    THEN [acc EXCEPT !.error = "KeyError"]
    ELSE RenderPresent(b, acc, citation)

\* the loop of lines 84-107 from citation i on
RECURSIVE RenderLoop(_, _, _, _)
RenderLoop(b, cits, i, acc) ==
    IF i > Len(cits) \/ acc.error # "none" THEN acc
    ELSE RenderLoop(b, cits, i + 1, RenderCitation(b, acc, cits[i]))

\* domain.bibliography_header
bibliography_header == Element("paragraph", <<>>)

\* lines 71-83 and 109-110: the container of the list mode inside a copy of
\* the header; in citation mode the entries are the copy's own children
FinalNode(b, start, nodes) ==
    LET contents ==
            IF b.list_ = "enumerated"
            THEN <<[tag |-> "enumerated_list", enumtype |-> b.enumtype,
                    start |-> start, children |-> nodes]>>
            ELSE IF b.list_ = "bullet"
            THEN <<[tag |-> "bullet_list", children |-> nodes]>>
            ELSE nodes
    IN [bibliography_header EXCEPT !.children = @ \o contents]

\* docutils.nodes.target()
Target == Element("target", <<>>)

\* the body of the loop of line 62 for the placeholder at pos
RunBibnode ==
    /\ repair = "none"
    /\ error = "none"
    /\ pos <= Len(bibliographies)
    /\ LET b == bibliographies[pos]
           cits == MatchingCitations(BibliographyKey(b))
           start == EnumStart(b, temp_data)
           temp == IF b.list_ = "enumerated"
                   THEN CounterAtStart(b, temp_data) ELSE temp_data
           done == RenderLoop(b, cits, 1,
                       [error |-> "none", nodes |-> <<>>, temp |-> temp,
                        citation_nodes |-> citation_nodes[pos]])
       IN /\ temp_data' = done.temp
          /\ citation_nodes' = [citation_nodes EXCEPT ![pos] = done.citation_nodes]
          /\ error' = done.error
          /\ IF done.error = "none"
             THEN /\ document' = [document EXCEPT ![pos] =
                        IF cits # <<>> THEN FinalNode(b, start, done.nodes)
                        ELSE Target]
                  /\ pos' = pos + 1
             ELSE UNCHANGED <<document, pos>>
    /\ UNCHANGED <<bibliographies, citations, citation_refs, repairVars>>

---------------------------------------------------------------------------
(* Bounds and inputs of BibliographyTransform.run                           *)

MaxBibs == 2          \* bibliography placeholders in the build

MaxCitations == 2     \* Citations in domain.citations

MaxRefs == 1          \* CitationRefs in domain.citation_refs

Docs == {"docA", "docB"}

Keys == {"x", "y"}

Starts == {0, 1, 3}

\* all sequences over S of length at most n
SeqsUpTo(S, n) == UNION {[1..k -> S] : k \in 0..n}

\* the formatted entry of a key: its label and the children of the
\* paragraph the backend renders for it
FormattedEntry(key) ==
    IF key = "x"
    THEN [label |-> "X1",
          body |-> <<Text("Entry x. See \\url "), Text("http://example.org/x")>>]
    ELSE [label |-> "Y2", body |-> <<Text("Entry y.")>>]

\* the node the directive builds for an entry before the transform runs
PrebuiltNode(list_, key) ==
    [tag |-> IF list_ = "citation" THEN "citation" ELSE "list_item",
     ids |-> <<key>>, backrefs |-> <<>>, docname |-> "", children |-> <<>>]

\* list mode and start of a bibliography; start is read in the enumerated
\* branch only (lines 74-79)
NumberingShapes ==
    {[docname |-> "docA", list_ |-> "enumerated", start |-> s] : s \in Starts}
    \cup {[docname |-> "docA", list_ |-> m, start |-> 0] : m \in {"bullet", "citation"}}

\* citation-style bibliographies spread over the documents
BackrefShapes == {[docname |-> d, list_ |-> "citation", start |-> 0] : d \in Docs}

\* recorded citations: at most one Citation per bibliography and key
CitationLists ==
    {c \in SeqsUpTo((1..MaxBibs) \X Keys, MaxCitations) :
        \A i, j \in 1..Len(c) : c[i] = c[j] => i = j}

\* recorded citation markers: document and cited keys; the marker's id is
\* its place in the registry
RefLists ==
    SeqsUpTo({[docname |-> d, keys |-> ks] :
                 d \in Docs, ks \in (SUBSET Keys) \ {{}}}, MaxRefs)

\* bibnode['ids'][0]: ids are unique within a document, not across the build
IdOf(shapes, i) ==
    Cardinality({j \in 1..i : shapes[j].docname = shapes[i].docname})

\* the registries as document construction leaves them.  missing is the
\* Citation (0: none) whose bibliography holds no node for its key
Registries(shapes, c, refs, missing) ==
    /\ bibliographies =
          [i \in 1..MaxBibs |->
              [docname |-> shapes[i].docname, id_ |-> IdOf(shapes, i),
               list_ |-> shapes[i].list_, enumtype |-> "arabic",
               start |-> shapes[i].start]]
    /\ citations =
          [j \in 1..Len(c) |->
              [bibliography_key |->
                  <<shapes[c[j][1]].docname, IdOf(shapes, c[j][1])>>,
               key |-> c[j][2],
               formatted_entry |-> FormattedEntry(c[j][2])]]
    /\ citation_nodes =
          [i \in 1..MaxBibs |->
              [k \in {k \in Keys : missing = 0 \/ c[missing] # <<i, k>>} |->
                  PrebuiltNode(shapes[i].list_, k)]]
    /\ citation_refs =
          [r \in 1..Len(refs) |->
              [citation_ref_id |-> r, docname |-> refs[r].docname,
               keys |-> refs[r].keys]]
    /\ document =
          [i \in 1..MaxBibs |->
              [tag |-> "bibliography", docname |-> shapes[i].docname,
               ids |-> <<IdOf(shapes, i)>>]]

NoRepair ==
    /\ repair = "none"
    /\ input = Text("")
    /\ node = input
    /\ passes = <<>>
    /\ raised = FALSE

\* run() starts on a build whose registries are filled and whose counter
\* is absent.  Two input families: bibliographies of every list mode and
\* start in one document, one citation node possibly missing; and
\* citation-style bibliographies over several documents with citation
\* markers recorded
Init ==
    /\ NoRepair
    /\ temp_data = <<>>
    /\ pos = 1
    /\ error = "none"
    /\ \E c \in CitationLists :
          \/ \E shapes \in [1..MaxBibs -> NumberingShapes], missing \in 0..Len(c) :
                Registries(shapes, c, <<>>, missing)
          \/ \E shapes \in [1..MaxBibs -> BackrefShapes], refs \in RefLists :
                Registries(shapes, c, refs, 0)

Next == RunBibnode

Spec == Init /\ [][Next]_vars

---------------------------------------------------------------------------
(* Claims about BibliographyTransform.run (specification Spec)              *)

\* the Citations recorded for the key of bibliography i, in recording order
RecordedFor(i) ==
    SelectSeq(citations, LAMBDA c :
        c.bibliography_key = <<bibliographies[i].docname, bibliographies[i].id_>>)

IsEnumerated(i) == bibliographies[i].list_ = "enumerated"

\* the last enumerated bibliography before placeholder i, 0 if there is none
PrevEnumerated(i) ==
    IF \E j \in 1..(i - 1) : IsEnumerated(j)
    THEN CHOOSE j \in 1..(i - 1) :
            IsEnumerated(j) /\ \A k \in (j + 1)..(i - 1) : ~IsEnumerated(k)
    ELSE 0

\* the number the first entry of enumerated bibliography i is to carry
RECURSIVE FirstNumber(_)
FirstNumber(i) ==
    IF bibliographies[i].start >= 1 THEN bibliographies[i].start
    ELSE IF PrevEnumerated(i) = 0 THEN 1
    ELSE FirstNumber(PrevEnumerated(i)) + Len(RecordedFor(PrevEnumerated(i)))

\* the entry nodes rendered for placeholder i
Entries(i) ==
    IF bibliographies[i].list_ = "citation" THEN document[i].children
    ELSE document[i].children[1].children

\* placeholder i has been replaced by a rendered list
Rendered(i) == i < pos /\ RecordedFor(i) # <<>>

\* the Citations of bibliography i rendered before one without a node
RECURSIVE RenderedBeforeMissing(_, _)
RenderedBeforeMissing(i, cits) ==
    IF cits = <<>> \/ Head(cits).key \notin DOMAIN citation_nodes[i] THEN 0
    ELSE 1 + RenderedBeforeMissing(i, Tail(cits))

HasMissingNode(i) ==
    \E j \in 1..Len(RecordedFor(i)) :
        RecordedFor(i)[j].key \notin DOMAIN citation_nodes[i]

\* C1: an enumerated bibliography with start >= 1 is numbered from start,
\* one with start < 1 from where the previous enumerated bibliography ended
\* (1 if there was none), and the shared counter stands one past the last
\* number given out: one step per rendered entry.
C1_CounterContinuity ==
    repair = "none" =>
        /\ \A i \in 1..(pos - 1) :
              (IsEnumerated(i) /\ RecordedFor(i) # <<>>) =>
                  /\ document[i].children[1].tag = "enumerated_list"
                  /\ document[i].children[1].start = FirstNumber(i)
                  /\ Len(document[i].children[1].children) = Len(RecordedFor(i))
        /\ error = "none" =>
              temp_data = IF PrevEnumerated(pos) = 0 THEN <<>>
                          ELSE <<FirstNumber(PrevEnumerated(pos))
                                   + Len(RecordedFor(PrevEnumerated(pos)))>>
        /\ (error # "none" /\ IsEnumerated(pos)) =>
              temp_data = <<FirstNumber(pos)
                              + RenderedBeforeMissing(pos, RecordedFor(pos))>>

\* two enumerated bibliographies in a row, the second without explicit
\* start, rendered as 1..n1 and n1+1..n1+n2
C1_Witness ==
    /\ repair = "none"
    /\ \E i, j \in 1..(pos - 1) :
          /\ i < j
          /\ IsEnumerated(i) /\ IsEnumerated(j)
          /\ RecordedFor(i) # <<>> /\ RecordedFor(j) # <<>>
          /\ bibliographies[i].start < 1 /\ bibliographies[j].start < 1
          /\ document[i].children[1].start = 1
          /\ document[j].children[1].start = 1 + Len(RecordedFor(i))

\* the rendered entry e carries the node, label and body of Citation c
EntryCarries(e, c, list_) ==
    /\ e.ids = <<c.key>>
    /\ IF list_ = "citation"
       THEN /\ Len(e.children) = 2
            /\ e.children[1] = Element("label", <<Text(c.formatted_entry.label)>>)
            /\ e.children[2].tag = "paragraph"
       ELSE /\ Len(e.children) = 1
            /\ e.children[1].tag = "paragraph"
    /\ AsText(e.children[Len(e.children)])
          = RemoveAll(AsTextSeq(c.formatted_entry.body), UrlMarker)

\* C2: the entries rendered for a bibliography are, position by position,
\* the Citations recorded for its key, in recording order.
C2_EntriesInRecordedOrder ==
    repair = "none" =>
        \A i \in 1..(pos - 1) :
            RecordedFor(i) # <<>> =>
                /\ Len(Entries(i)) = Len(RecordedFor(i))
                /\ \A j \in 1..Len(RecordedFor(i)) :
                      EntryCarries(Entries(i)[j], RecordedFor(i)[j],
                                   bibliographies[i].list_)

\* a bibliography rendered with key "y" recorded before key "x"
C2_Witness ==
    /\ repair = "none"
    /\ \E i \in 1..(pos - 1) :
          /\ Len(RecordedFor(i)) = 2
          /\ RecordedFor(i)[1].key = "y" /\ RecordedFor(i)[2].key = "x"
          /\ Entries(i)[1].ids = <<"y">> /\ Entries(i)[2].ids = <<"x">>

\* the marker ids of the CitationRefs of document d that cite key
RefsCiting(d, key) ==
    {citation_refs[r].citation_ref_id : r \in
        {r \in 1..Len(citation_refs) :
            citation_refs[r].docname = d /\ key \in citation_refs[r].keys}}

\* C3: in citation-style mode the back-reference targets of the entry for
\* key k are exactly the markers of the bibliography's own document that
\* cite k.
C3_BackrefsOfSameDocument ==
    repair = "none" =>
        \A i \in 1..(pos - 1) :
            (bibliographies[i].list_ = "citation" /\ RecordedFor(i) # <<>>) =>
                \A j \in 1..Len(Entries(i)) :
                    LET backrefs == Entries(i)[j].backrefs IN
                    /\ {backrefs[n] : n \in 1..Len(backrefs)}
                          = RefsCiting(bibliographies[i].docname,
                                       RecordedFor(i)[j].key)
                    /\ Len(backrefs)
                          = Cardinality(RefsCiting(bibliographies[i].docname,
                                                   RecordedFor(i)[j].key))

\* an entry rendered in one document while a marker of another document
\* cites its key
C3_Witness ==
    /\ repair = "none"
    /\ \E i \in 1..(pos - 1) :
          /\ bibliographies[i].list_ = "citation"
          /\ \E j \in 1..Len(RecordedFor(i)), r \in 1..Len(citation_refs) :
                /\ RecordedFor(i)[j].key \in citation_refs[r].keys
                /\ citation_refs[r].docname # bibliographies[i].docname
                /\ Entries(i)[j].backrefs = <<>>

\* the number the next bibliography without explicit start begins with
NextNumber(temp) == IF temp = <<>> THEN 1 ELSE temp[1]

\* C4: a step on a placeholder without Citations replaces it by an empty
\* target node and changes nothing else: the shared counter keeps its value.
C4_EmptyPlaceholderOnlyReplaced ==
    [][(/\ repair = "none"
        /\ error = "none"
        /\ pos <= Len(bibliographies)
        /\ RecordedFor(pos) = <<>>)
       => (/\ document' = [document EXCEPT ![pos] = Element("target", <<>>)]
           /\ error' = "none"
           /\ NextNumber(temp_data') = NextNumber(temp_data)
           /\ citation_nodes' = citation_nodes
           /\ citations' = citations
           /\ citation_refs' = citation_refs
           /\ bibliographies' = bibliographies)]_vars

\* C8: a bibliography with a Citation whose key has no node is never
\* replaced and never passed by: the run ends at it with KeyError.
C8_MissingNodeFails ==
    repair = "none" =>
        /\ \A i \in 1..Len(bibliographies) :
              HasMissingNode(i) =>
                  /\ document[i].tag = "bibliography"
                  /\ pos <= i
        /\ error # "none" => (error = "KeyError" /\ HasMissingNode(pos))

\* the run has stopped with KeyError at a placeholder whose second Citation
\* has no node
C8_Witness ==
    /\ repair = "none"
    /\ error = "KeyError"
    /\ pos <= Len(bibliographies)
    /\ Len(RecordedFor(pos)) = 2
    /\ RecordedFor(pos)[2].key \notin DOMAIN citation_nodes[pos]
    /\ document[pos].tag = "bibliography"

---------------------------------------------------------------------------
(* Bounds and input families of the Text Repair passes                      *)

MaxChildren == 5      \* children of the element a pass is applied to

MaxInner == 2         \* children of an element nested in it

MaxPasses == 2        \* applications of a pass to one subtree

LinkTexts == {"See \\url ", "http://example.org"}

EmphTexts == {"Review on \\textit ", "E. coli ", "\\tex\\textit tit \\textit "}

\* subtrees handed to Link Recovery: a paragraph of text fragments and of
\* inline elements that hold text fragments themselves
LinkInputs ==
    LET texts == {Text(t) : t \in LinkTexts}
        inner == {Element("emphasis", c) : c \in SeqsUpTo(texts, MaxInner)}
    IN {Element("paragraph", c) : c \in SeqsUpTo(texts \cup inner, MaxChildren)}

\* subtrees handed to Emphasis Recovery: a citation node made of a label and
\* a body paragraph; the label and the nested inline element carry the
\* marker pattern too
EmphInputs ==
    LET texts == {Text(t) : t \in EmphTexts}
        nested == Element("reference",
                      <<Text("Review on \\textit "), Text("E. coli ")>>)
        label == Element("label", <<Text("[Lbl] \\textit "), Text("x")>>)
    IN {[tag |-> "citation",
         children |-> <<label, Element("paragraph", c)>>] :
            c \in SeqsUpTo(texts \cup {nested}, MaxChildren - 1)}

NoBibliographies ==
    /\ bibliographies = <<>>
    /\ citation_nodes = <<>>
    /\ citations = <<>>
    /\ citation_refs = <<>>
    /\ temp_data = <<>>
    /\ document = <<>>
    /\ pos = 1
    /\ error = "none"

InitRepair ==
    /\ NoBibliographies
    /\ \/ repair = "link" /\ input \in LinkInputs
       \/ repair = "emphasis" /\ input \in EmphInputs
    /\ node = input
    /\ passes = <<>>
    /\ raised = FALSE

\* one call node_text_transform(node)
ApplyLinkRecovery ==
    /\ repair = "link"
    /\ ~raised
    /\ Len(passes) < MaxPasses
    /\ LET r == node_text_transform(node) IN
        /\ node' = r.node
        /\ raised' = r.raised
        /\ passes' = IF r.raised THEN passes ELSE Append(passes, r.node)
    /\ UNCHANGED <<input, repair, bibVars>>

\* one PybibtexNodeFormatter.run over the document that holds node
ApplyEmphasisRecovery ==
    /\ repair = "emphasis"
    /\ ~raised
    /\ Len(passes) < MaxPasses
    /\ node' = PybibtexNodeFormatter_run(node)
    /\ passes' = Append(passes, node')
    /\ UNCHANGED <<input, raised, repair, bibVars>>

NextRepair == ApplyLinkRecovery \/ ApplyEmphasisRecovery

SpecRepair == InitRepair /\ [][NextRepair]_vars

---------------------------------------------------------------------------
(* Claims about the Text Repair passes (specification SpecRepair)           *)

\* some element of the subtree has a child i that is a text fragment ending
\* in the url marker and a child i+1 that is a text fragment
RECURSIVE HasUrlPair(_)
HasUrlPair(n) ==
    /\ ~IsText(n)
    /\ \E i \in 1..Len(n.children) :
          IsUrlPair(n.children, i) \/ HasUrlPair(n.children[i])

\* what Link Recovery is to make of a subtree when children are identified
\* by position: the child after a marker fragment becomes a hyperlink to its
\* own text, a marker fragment loses its trailing marker, everything else
\* stays where and what it was
RECURSIVE RepairedByPosition(_)
RepairedByPosition(n) ==
    IF IsText(n) THEN n
    ELSE [n EXCEPT !.children =
            [i \in 1..Len(n.children) |->
                IF i > 1 /\ IsUrlPair(n.children, i - 1)
                THEN Reference(n.children[i])
                ELSE IF IsUrlPair(n.children, i)
                THEN Text(DropLast(n.children[i].text, Len(UrlMarker)))
                ELSE RepairedByPosition(n.children[i])]]

IsTextitFragment(ch) == IsText(ch) /\ EndsWith(ch.text, TextitMarker)

\* the direct children of a citation paragraph as Emphasis Recovery is to
\* leave them: same length and order, a marker fragment without its trailing
\* marker, the sibling right after a marker fragment inside an emphasis node
EmphasizedByPosition(children) ==
    [i \in 1..Len(children) |->
        LET stripped == IF IsTextitFragment(children[i])
                        THEN Text(DropLast(children[i].text, Len(TextitMarker)))
                        ELSE children[i]
        IN IF i > 1 /\ IsTextitFragment(children[i - 1])
           THEN Emphasis(stripped)
           ELSE stripped]

\* the body paragraph of a citation node of EmphInputs
Body(citation) == citation.children[2]

\* a marker fragment of the body paragraph has a sibling after it
HasTextitPair(citation) ==
    \E i \in 1..(Len(Body(citation).children) - 1) :
        IsTextitFragment(Body(citation).children[i])

\* C5: Link Recovery is idempotent: a second application to any subtree
\* leaves the tree the first application produced.
C5_LinkRecoveryIdempotent ==
    repair = "link" =>
        /\ Len(passes) >= 1 => ~raised
        /\ \A k \in 2..Len(passes) : passes[k] = passes[1]

\* C6: Emphasis Recovery is idempotent: a second application to any citation
\* paragraph leaves the child sequence the first application produced.
C6_EmphasisRecoveryIdempotent ==
    repair = "emphasis" =>
        \A k \in 2..Len(passes) : passes[k] = passes[1]

\* C7: neither Text Repair pass ever raises, and when the marker is not
\* found, or is found without the expected following fragment, the pass
\* leaves the subtree exactly as it was.
C7_RepairNeverRaisesMismatchIsNoop ==
    /\ ~raised
    /\ (repair = "link" /\ Len(passes) >= 1 /\ ~HasUrlPair(input))
          => passes[1] = input
    /\ (repair = "emphasis" /\ Len(passes) >= 1 /\ ~HasTextitPair(input))
          => passes[1] = input

\* C9: Link Recovery changes exactly the positions i and i+1 of a marker
\* fragment followed by a text fragment, at every depth, the children being
\* identified by position.
C9_LinkRecoveryByPosition ==
    repair = "link" =>
        /\ ~raised
        /\ Len(passes) >= 1 => passes[1] = RepairedByPosition(input)

\* C10: Emphasis Recovery keeps the paragraph's children in order, removes
\* only the trailing marker of each marker fragment, wraps the sibling right
\* after each marker fragment in emphasis, and leaves the label and nested
\* structures alone.
C10_EmphasisRecoveryByPosition ==
    (repair = "emphasis" /\ Len(passes) >= 1) =>
        /\ passes[1].children[1] = input.children[1]
        /\ Body(passes[1]).tag = "paragraph"
        /\ Body(passes[1]).children = EmphasizedByPosition(Body(input).children)

=============================================================================
